---- MODULE Spec2Model ----
(***************************************************************************)
(* 03_BuildModel.ipynb as a state machine.                                 *)
(*                                                                         *)
(* The notebook is a sequence of code cells run top to bottom by one       *)
(* kernel.  The state is the kernel namespace (ns, defined), the files on  *)
(* disk, the position in the notebook (pc), the progress of the Keras      *)
(* training loop inside the fit cell, and three logs: the cells executed,  *)
(* the library calls made (with the names of the variables passed), and    *)
(* the files read.                                                         *)
(*                                                                         *)
(* Numbers: a probability is an integer k in 0..ProbScale standing for     *)
(* k/ProbScale; a rate or an area is an unreduced fraction <<num, den>>,   *)
(* and <<0, 0>> is NaN.  The 128-unit LSTM state is abstracted to one      *)
(* integer modulo HiddenMod and the trainable parameters to one integer    *)
(* in 0..MaxWeight; a gradient step (which depends on random dropout) may  *)
(* produce any parameter value.                                            *)
(***************************************************************************)
EXTENDS Integers, Sequences, FiniteSets, TLC

VARIABLES pc, disk, ns, defined, executed, calls, diskReads,
          weights, fitPhase, fitEpoch, fitOrder, fitPos, seen, updates,
          stepsPerEpoch, figures

vars == <<pc, disk, ns, defined, executed, calls, diskReads,
          weights, fitPhase, fitEpoch, fitOrder, fitPos, seen, updates,
          stepsPerEpoch, figures>>

----------------------------------------------------------------------------
(* Bounds of the model *)

\* most validation encounters
MaxValid == 2
\* most timesteps of an encounter
MaxT == 2
\* most training encounters (above BatchSize, so that an epoch has a
\* full batch and a partial one)
MaxTrain == 130
\* most rows of pim2prism3.csv
MaxRows == 2
\* parameters take the values 0..MaxWeight
MaxWeight == 1
\* the abstract LSTM state is an integer modulo HiddenMod
HiddenMod == 3
\* a probability is k/ProbScale
ProbScale == 4
\* the shuffles of an epoch that are explored: rotations by 0..MaxShift
MaxShift == 1

(* Program constants *)

BatchSize == 128
Epochs == 5
LstmUnits == 128
DenseUnits == 1
MaskValue == 0

\* feature dimensions X_train.shape[-1] that are explored (265 in the data)
FeatureDims == {1, 3}

----------------------------------------------------------------------------
(* Helpers on sequences and fractions *)

NaN == <<0, 0>>

IsNaN(q) == q[2] = 0

Min(a, b) == IF a <= b THEN a ELSE b

Range(s) == {s[i] : i \in 1..Len(s)}

RECURSIVE SumSeq(_)
SumSeq(s) == IF Len(s) = 0 THEN 0 ELSE Head(s) + SumSeq(Tail(s))

\* the shape of a three-dimensional array, as numpy reports it
Shape(a) ==
    IF Len(a) = 0 THEN <<0, 0, 0>>
    ELSE IF Len(a[1]) = 0 THEN <<Len(a), 0, 0>>
    ELSE <<Len(a), Len(a[1]), Len(a[1][1])>>

----------------------------------------------------------------------------
(* The files *)

FileXTrain == "X_train_prepared.npy"
FileYTrain == "y_train_prepared.npy"
FileXValid == "X_valid_prepared.npy"
FileYValid == "y_valid_prepared.npy"
FileCsv    == "pim2prism3.csv"

ArrayFiles == <<FileXTrain, FileYTrain, FileXValid, FileYValid>>

Files == {FileXTrain, FileYTrain, FileXValid, FileYValid, FileCsv}

(* The prepared data.  An encounter has T timesteps of F features.  A real *)
(* observation has a nonzero first feature (other features may be zero);   *)
(* a padded timestep is all zero.  Pattern p of an encounter: p in 0..T is *)
(* p real observations followed by padding (0: nothing but padding),       *)
(* p = T+1 is one padded timestep followed by real observations.  The      *)
(* label row carries the encounter's label on timestep 0 and on every real *)
(* timestep, and 0 on trailing padding.                                    *)

IsReal(T, p, t) == IF p <= T THEN t <= p ELSE t >= 2

Observation(F, t, i) ==
    [f \in 1..F |-> IF f = 1 THEN 1 + ((t + i) % 2) ELSE (t + f) % 2]

ZeroObservation(F) == [f \in 1..F |-> 0]

EncounterX(T, F, p, i) ==
    [t \in 1..T |-> IF IsReal(T, p, t) THEN Observation(F, t, i)
                    ELSE ZeroObservation(F)]

EncounterY(T, p, y) ==
    [t \in 1..T |-> <<IF t = 1 \/ IsReal(T, p, t) THEN y ELSE 0>>]

\* the data sets of N encounters: every choice of the encounters' padding
\* patterns, the label of an encounter following from its pattern and its
\* position
DataSets(N, T, F) ==
    { [X |-> [i \in 1..N |-> EncounterX(T, F, c[i], i)],
       Y |-> [i \in 1..N |-> EncounterY(T, c[i], (c[i] + i) % 2)]] :
      c \in [1..N -> 0..(T + 1)] }

\* one fixed data set of N encounters
FixedDataSet(N, T, F) ==
    [X |-> [i \in 1..N |-> EncounterX(T, F, i % (T + 2), i)],
     Y |-> [i \in 1..N |-> EncounterY(T, i % (T + 2), i % 2)]]

(* pim2prism3.csv: one row per patient, the outcome and the two scores.    *)
CsvRowChoices ==
    { [mortalityResponse |-> m, PIM2 |-> s[1], PRISM3 |-> s[2]] :
      m \in {0, 1}, s \in {<<0, 1>>, <<1, 0>>} }

CsvFiles == UNION { [1..n -> CsvRowChoices] : n \in 1..MaxRows }

FixedCsv ==
    << [mortalityResponse |-> 1, PIM2 |-> 0, PRISM3 |-> 1],
       [mortalityResponse |-> 0, PIM2 |-> 1, PRISM3 |-> 1] >>

MakeDisk(train, valid, csv) ==
    [f \in Files |->
        CASE f = FileXTrain -> train.X
          [] f = FileYTrain -> train.Y
          [] f = FileXValid -> valid.X
          [] f = FileYValid -> valid.Y
          [] OTHER          -> csv]

\* every validation set within the bounds, one training set, one csv
DisksMain ==
    { MakeDisk(FixedDataSet(3, T, F), valid, FixedCsv) :
      <<T, F, valid>> \in
        UNION { {<<T, F, v>> : v \in DataSets(N, T, F)} :
                <<N, T, F>> \in (1..MaxValid) \X (1..MaxT) \X FeatureDims } }

\* the training-set sizes explored: the smallest, and from one short of a
\* batch up to the bound; one validation set, one csv
TrainSizes == {n \in 1..MaxTrain : n <= 2 \/ n >= BatchSize - 1}

DisksFit ==
    { MakeDisk(FixedDataSet(N, T, 1), FixedDataSet(2, T, 1), FixedCsv) :
      <<N, T>> \in TrainSizes \X (1..MaxT) }

\* every csv within the bounds, one validation set of each size
DisksCompare ==
    { MakeDisk(FixedDataSet(2, 2, 1), FixedDataSet(N, 2, 1), csv) :
      <<N, csv>> \in (1..MaxValid) \X CsvFiles }

----------------------------------------------------------------------------
(* numpy: indexing and squeeze.  The result of a[:, k, :] is an array of   *)
(* shape (N, K), kept as its shape and its values in row order.            *)

\* a Python index (0-based, negative from the end) as a 1-based position
PyIndex(len, k) == IF k < 0 THEN len + k + 1 ELSE k + 1

RECURSIVE Flatten(_)
Flatten(rows) == IF Len(rows) = 0 THEN <<>> ELSE Head(rows) \o Flatten(Tail(rows))

\* a[:, k, :] of a three-dimensional array
TakeTimestep(a, k) ==
    LET t == PyIndex(Shape(a)[2], k) IN
    [shape |-> <<Shape(a)[1], Shape(a)[3]>>,
     data  |-> Flatten([i \in 1..Len(a) |-> a[i][t]])]

\* ndarray.squeeze(): every axis of length one is removed
Squeeze(a) ==
    [shape |-> SelectSeq(a.shape, LAMBDA d : d # 1), data |-> a.data]

----------------------------------------------------------------------------
(* Keras: the layers, and inference.                                       *)

\* Masking(0): a timestep is kept when some feature differs from the mask
\* value
Masking(x) == \E f \in 1..Len(x) : x[f] # MaskValue

\* one step of the LSTM cell on an unmasked timestep (the abstraction of
\* the state update: it depends on the parameters, the previous state and
\* the input, and it never leaves the state as it was)
LSTMCell(w, h, x) == (h + w + SumSeq(x) + 1) % HiddenMod

\* the LSTM over one encounter, return_sequences=True: one output per
\* timestep; on a masked timestep the state and the output are those of
\* the previous timestep (zero before the first)
LSTM(w, xs) ==
    LET H[t \in 0..Len(xs)] ==
            IF t = 0 THEN 0
            ELSE IF Masking(xs[t]) THEN LSTMCell(w, H[t - 1], xs[t])
            ELSE H[t - 1]
    IN  [t \in 1..Len(xs) |-> H[t]]

\* the logistic function on the abstract scale: monotone, saturating at
\* 0 and at ProbScale
Sigmoid(z) ==
    IF z <= -ProbScale THEN 0
    ELSE IF z >= ProbScale THEN ProbScale
    ELSE (z + ProbScale) \div 2

\* a linear output layer, as if activation='sigmoid' were left out
LinearActivation(z) == z

\* the activation of the output layer
OutputActivation(z) == Sigmoid(z)

\* Dense(1, activation='sigmoid') on one timestep's LSTM output
Dense(w, h) == << OutputActivation(3 * (2 * h - HiddenMod + 1) + 2 * w - 1) >>

\* TimeDistributed(Dense): the same Dense on every timestep
TimeDistributed(w, hs) == [t \in 1..Len(hs) |-> Dense(w, hs[t])]

\* the network on one encounter
Forward(w, xs) == TimeDistributed(w, LSTM(w, xs))

\* model.predict(X)
ModelPredict(w, X) == [i \in 1..Len(X) |-> Forward(w, X[i])]

----------------------------------------------------------------------------
(* scikit-learn: roc_curve and auc; and the '%0.3f' format.                *)

RECURSIVE SortDescending(_)
SortDescending(S) ==
    IF S = {} THEN <<>>
    ELSE LET m == CHOOSE x \in S : \A y \in S : y <= x
         IN  <<m>> \o SortDescending(S \ {m})

\* the subsequence of s at the positions in keep
RECURSIVE SelectPositions(_, _, _)
SelectPositions(s, keep, k) ==
    IF k > Len(s) THEN <<>>
    ELSE (IF k \in keep THEN <<s[k]>> ELSE <<>>) \o SelectPositions(s, keep, k + 1)

\* roc_curve(y_true, y_score) on one-dimensional inputs, the positive label
\* being 1: the counts of false and true positives at each distinct score
\* taken as a threshold, from the highest down; the points in the middle of
\* a straight segment dropped (drop_intermediate); the origin put in front;
\* the counts divided by their totals (NaN when a class is absent).  The
\* thresholds, the third component, are left out: the notebook reads
\* components 0 and 1 only.
RocCurve(y_true, y_score) ==
    LET n     == Len(y_score)
        thr   == SortDescending(Range(y_score))
        m     == Len(thr)
        tps   == [k \in 1..m |->
                    Cardinality({i \in 1..n : y_score[i] >= thr[k] /\ y_true[i] = 1})]
        fps   == [k \in 1..m |->
                    Cardinality({i \in 1..n : y_score[i] >= thr[k] /\ y_true[i] # 1})]
        keep  == IF m > 2
                 THEN {k \in 1..m :
                         \/ k = 1
                         \/ k = m
                         \/ fps[k + 1] - 2 * fps[k] + fps[k - 1] # 0
                         \/ tps[k + 1] - 2 * tps[k] + tps[k - 1] # 0}
                 ELSE 1..m
        tps2  == <<0>> \o SelectPositions(tps, keep, 1)
        fps2  == <<0>> \o SelectPositions(fps, keep, 1)
        neg   == fps2[Len(fps2)]
        pos   == tps2[Len(tps2)]
        fpr   == [k \in 1..Len(fps2) |-> IF neg <= 0 THEN NaN ELSE <<fps2[k], neg>>]
        tpr   == [k \in 1..Len(tps2) |-> IF pos <= 0 THEN NaN ELSE <<tps2[k], pos>>]
    IN  <<fpr, tpr>>

\* auc(x, y): the trapezoidal rule over the points, x being non-decreasing
Auc(x, y) ==
    LET xd == x[1][2]
        yd == y[1][2]
    IN  IF xd = 0 \/ yd = 0 THEN NaN
        ELSE << SumSeq([k \in 1..(Len(x) - 1) |->
                          (x[k + 1][1] - x[k][1]) * (y[k + 1][1] + y[k][1])]),
                2 * xd * yd >>

\* '%0.3f' % q: the thousandths nearest to q, ties to even; -1 is 'nan'
Format3(q) ==
    IF IsNaN(q) THEN -1
    ELSE LET k == (1000 * q[1]) \div q[2]
             r == (1000 * q[1]) % q[2]
         IN  IF 2 * r < q[2] THEN k
             ELSE IF 2 * r > q[2] THEN k + 1
             ELSE IF k % 2 = 0 THEN k ELSE k + 1

----------------------------------------------------------------------------
(* The notebook *)

\* the cells with the predict cell moved above the fit cell
CellsPredictBeforeFit ==
    << "imports", "load", "build", "predict", "fit", "shape", "visualize",
       "roc", "baselines", "plot" >>

\* the code cells, top to bottom
NotebookCells ==
    << "imports", "load", "build", "fit", "predict", "shape", "visualize",
       "roc", "baselines", "plot" >>

\* the cell run after cell c; "done" after the last
NextCell(c) ==
    LET k == CHOOSE j \in 1..Len(NotebookCells) : NotebookCells[j] = c
    IN  IF k < Len(NotebookCells) THEN NotebookCells[k + 1] ELSE "done"

\* the names whose values the model keeps: ns[n] is <<>> while n is
\* unassigned and <<v>> once it holds v
Names ==
    { "X_train", "y_train", "X_valid", "y_valid", "model", "history", "preds",
      "numencnt", "ix", "label", "prediction", "rnn_roc", "rnn_auc",
      "index", "mortrep", "pim2_roc", "prism3_roc", "pim2_auc", "prism3_auc" }

\* the names a cell reads that a cell of the notebook assigns
CellReads(c) ==
    CASE c = "imports"   -> {}
      [] c = "load"      -> {}
      [] c = "build"     -> {"X_train"}
      [] c = "fit"       -> {"model", "X_train", "y_train"}
      [] c = "predict"   -> {"model", "X_valid"}
      [] c = "shape"     -> {"preds"}
      [] c = "visualize" -> {"X_valid", "preds"}
      [] c = "roc"       -> {"y_valid", "preds"}
      [] c = "baselines" -> {}
      [] c = "plot"      -> {"prism3_roc", "prism3_auc", "pim2_roc", "pim2_auc",
                             "rnn_roc", "rnn_auc"}

\* the names a cell assigns when it runs to its end
CellWrites(c) ==
    CASE c = "imports"   -> {"data_dir", "csv_dir"}
      [] c = "load"      -> {"X_train", "y_train", "X_valid", "y_valid"}
      [] c = "build"     -> {"x", "mask", "lstm_kwargs", "lstm1", "output",
                             "model", "optimizer"}
      [] c = "fit"       -> {"history"}
      [] c = "predict"   -> {"preds"}
      [] c = "shape"     -> {}
      [] c = "visualize" -> {"numencnt", "ix", "f", "ax1", "ax2"}
      [] c = "roc"       -> {"label", "prediction", "rnn_roc", "rnn_auc"}
      [] c = "baselines" -> {"index", "mortrep", "pim2_roc", "prism3_roc",
                             "pim2_auc", "prism3_auc"}
      [] c = "plot"      -> {"line_kwargs"}

\* an entry of the log of executed cells
Executed(c, writes) == [cell |-> c, reads |-> CellReads(c), writes |-> writes]

\* a library call that runs within one step: its call and its return
Call(fn, args) == << [fn |-> fn, args |-> args, ev |-> "call"],
                     [fn |-> fn, args |-> args, ev |-> "return"] >>

\* the value of an assigned name
Val(n) == ns[n][1]

Weights == 0..MaxWeight

InitWith(disks) ==
    /\ disk \in disks
    /\ pc = "imports"
    /\ ns = [n \in Names |-> <<>>]
    /\ defined = {}
    /\ executed = <<>>
    /\ calls = <<>>
    /\ diskReads = <<>>
    /\ weights = 0
    /\ fitPhase = "idle"
    /\ fitEpoch = 0
    /\ fitOrder = <<>>
    /\ fitPos = 0
    /\ seen = <<>>
    /\ updates = 0
    /\ stepsPerEpoch = <<>>
    /\ figures = <<>>

Init == InitWith(DisksMain)

fitVars == <<weights, fitPhase, fitEpoch, fitOrder, fitPos, seen, updates, stepsPerEpoch>>

\* import os, numpy, pandas, ...; data_dir, csv_dir
Imports ==
    /\ pc = "imports"
    /\ pc' = NextCell("imports")
    /\ defined' = defined \cup CellWrites("imports")
    /\ executed' = Append(executed, Executed("imports", CellWrites("imports")))
    /\ UNCHANGED <<disk, ns, calls, diskReads, fitVars, figures>>

\* a load cell that takes y_valid from the file of X_valid
LoadTargetsWrongFile ==
    << <<"X_train", FileXTrain>>, <<"y_train", FileYTrain>>,
       <<"X_valid", FileXValid>>, <<"y_valid", FileXValid>> >>

\* the files the load cell reads, and the name each is assigned to
LoadTargets ==
    << <<"X_train", FileXTrain>>, <<"y_train", FileYTrain>>,
       <<"X_valid", FileXValid>>, <<"y_valid", FileYValid>> >>

\* X_train = np.load('X_train_prepared.npy') ... y_valid = np.load(...)
LoadArrays ==
    /\ pc = "load"
    /\ pc' = NextCell("load")
    /\ ns' = [n \in Names |->
                IF \E k \in 1..Len(LoadTargets) : LoadTargets[k][1] = n
                THEN << disk[LoadTargets[CHOOSE k \in 1..Len(LoadTargets) :
                                              LoadTargets[k][1] = n][2]] >>
                ELSE ns[n]]
    /\ diskReads' = diskReads \o
           [k \in 1..Len(LoadTargets) |-> [cell |-> "load", file |-> LoadTargets[k][2]]]
    /\ calls' = calls \o Call("np.load", <<LoadTargets[1][2]>>)
                      \o Call("np.load", <<LoadTargets[2][2]>>)
                      \o Call("np.load", <<LoadTargets[3][2]>>)
                      \o Call("np.load", <<LoadTargets[4][2]>>)
    /\ defined' = defined \cup CellWrites("load")
    /\ executed' = Append(executed, Executed("load", CellWrites("load")))
    /\ UNCHANGED <<disk, fitVars, figures>>

\* a network with a second LSTM stacked on the first
StackedModelLayers ==
    << [name |-> "input", class |-> "InputLayer", units |-> 0,
        activation |-> "", return_sequences |-> FALSE, weights |-> 0],
       [name |-> "input_masked", class |-> "Masking", units |-> 0,
        activation |-> "", return_sequences |-> FALSE, weights |-> 0],
       [name |-> "lstm1", class |-> "LSTM", units |-> LstmUnits,
        activation |-> "tanh", return_sequences |-> TRUE, weights |-> 3],
       [name |-> "lstm2", class |-> "LSTM", units |-> LstmUnits,
        activation |-> "tanh", return_sequences |-> TRUE, weights |-> 3],
       [name |-> "output", class |-> "TimeDistributed(Dense)", units |-> DenseUnits,
        activation |-> "sigmoid", return_sequences |-> FALSE, weights |-> 2] >>

\* the network the build cell constructs for inputs of F features: the
\* layers in order, each with the number of its trainable weight tensors
ModelLayers ==
    << [name |-> "input", class |-> "InputLayer", units |-> 0,
        activation |-> "", return_sequences |-> FALSE, weights |-> 0],
       [name |-> "input_masked", class |-> "Masking", units |-> 0,
        activation |-> "", return_sequences |-> FALSE, weights |-> 0],
       [name |-> "lstm1", class |-> "LSTM", units |-> LstmUnits,
        activation |-> "tanh", return_sequences |-> TRUE, weights |-> 3],
       [name |-> "output", class |-> "TimeDistributed(Dense)", units |-> DenseUnits,
        activation |-> "sigmoid", return_sequences |-> FALSE, weights |-> 2] >>

BuildNetwork(F) ==
    [input_dim |-> F, layers |-> ModelLayers,
     optimizer |-> "RMSprop", loss |-> "binary_crossentropy"]

\* x = Input((None, X_train.shape[-1])) ... model.compile(...); model.summary()
\* The parameters start at random values.
BuildModel ==
    /\ pc = "build"
    /\ pc' = NextCell("build")
    /\ ns' = [ns EXCEPT !["model"] = <<BuildNetwork(Shape(Val("X_train"))[3])>>]
    /\ weights' \in Weights
    /\ calls' = calls \o Call("Model", <<"x", "output">>)
                      \o Call("model.compile", <<"optimizer">>)
                      \o Call("model.summary", <<>>)
    /\ defined' = defined \cup CellWrites("build")
    /\ executed' = Append(executed, Executed("build", CellWrites("build")))
    /\ UNCHANGED <<disk, diskReads, fitPhase, fitEpoch, fitOrder, fitPos, seen,
                   updates, stepsPerEpoch, figures>>

\* fit called on the validation arrays
FitOnValidation == <<"X_valid", "y_valid">>

\* the arrays passed to model.fit and to model.predict
FitArgs == <<"X_train", "y_train">>

PredictArgs == <<"X_valid">>

\* the number of training samples fit iterates over
FitSamples == Len(Val(FitArgs[1]))

\* history = model.fit(X_train, y_train, batch_size=128, epochs=5, verbose=1):
\* the call
FitCall ==
    /\ pc = "fit"
    /\ fitPhase = "idle"
    /\ fitPhase' = "epoch_begin"
    /\ fitEpoch' = 0
    /\ seen' = [i \in 1..FitSamples |-> 0]
    /\ stepsPerEpoch' = <<>>
    /\ calls' = Append(calls, [fn |-> "model.fit", args |-> FitArgs, ev |-> "call"])
    /\ UNCHANGED <<pc, disk, ns, defined, executed, diskReads, weights, fitOrder,
                   fitPos, updates, figures>>

\* the order 1..n rotated by k
Rotation(n, k) == [i \in 1..n |-> ((i + k - 1) % n) + 1]

\* the orders in which an epoch may visit the n samples (shuffle=True)
ShuffleOrders(n) == { Rotation(n, k) : k \in 0..Min(MaxShift, n - 1) }

\* an epoch begins: the samples are shuffled
FitEpochBegin ==
    /\ pc = "fit"
    /\ fitPhase = "epoch_begin"
    /\ fitOrder' \in ShuffleOrders(FitSamples)
    /\ fitPos' = 0
    /\ updates' = 0
    /\ fitPhase' = "steps"
    /\ UNCHANGED <<pc, disk, ns, defined, executed, calls, diskReads, weights,
                   fitEpoch, seen, stepsPerEpoch, figures>>

\* the samples of the batch that starts after position pos of the order
Batch(order, pos) == SubSeq(order, pos + 1, Min(pos + BatchSize, Len(order)))

\* one training step: the next batch of samples, one update of the parameters
FitTrainStep ==
    /\ pc = "fit"
    /\ fitPhase = "steps"
    /\ fitPos < FitSamples
    /\ LET batch == Batch(fitOrder, fitPos) IN
         /\ seen' = [i \in 1..FitSamples |->
                        IF i \in Range(batch) THEN seen[i] + 1 ELSE seen[i]]
         /\ fitPos' = fitPos + Len(batch)
    /\ weights' \in Weights
    /\ updates' = updates + 1
    /\ UNCHANGED <<pc, disk, ns, defined, executed, calls, diskReads, fitPhase,
                   fitEpoch, fitOrder, stepsPerEpoch, figures>>

\* training that stops early once the parameters reach a given value
StopEarly(epochsDone) == epochsDone < Epochs /\ weights # 0

\* whether training goes on after an epoch: no callback stops it early
ContinueTraining(epochsDone) == epochsDone < Epochs

\* an epoch ends
FitEpochEnd ==
    /\ pc = "fit"
    /\ fitPhase = "steps"
    /\ fitPos = FitSamples
    /\ stepsPerEpoch' = Append(stepsPerEpoch, updates)
    /\ fitEpoch' = fitEpoch + 1
    /\ fitPhase' = IF ContinueTraining(fitEpoch + 1) THEN "epoch_begin" ELSE "return"
    /\ UNCHANGED <<pc, disk, ns, defined, executed, calls, diskReads, weights,
                   fitOrder, fitPos, seen, updates, figures>>

\* fit returns the History
FitReturn ==
    /\ pc = "fit"
    /\ fitPhase = "return"
    /\ fitPhase' = "returned"
    /\ pc' = NextCell("fit")
    /\ ns' = [ns EXCEPT !["history"] = <<[epoch |-> [e \in 1..fitEpoch |-> e - 1]]>>]
    /\ calls' = Append(calls, [fn |-> "model.fit", args |-> FitArgs, ev |-> "return"])
    /\ defined' = defined \cup CellWrites("fit")
    /\ executed' = Append(executed, Executed("fit", CellWrites("fit")))
    /\ UNCHANGED <<disk, diskReads, weights, fitEpoch, fitOrder, fitPos, seen,
                   updates, stepsPerEpoch, figures>>

\* preds = model.predict(X_valid)
Predict ==
    /\ pc = "predict"
    /\ pc' = NextCell("predict")
    /\ ns' = [ns EXCEPT !["preds"] = <<ModelPredict(weights, Val(PredictArgs[1]))>>]
    /\ calls' = calls \o Call("model.predict", PredictArgs)
    /\ defined' = defined \cup CellWrites("predict")
    /\ executed' = Append(executed, Executed("predict", CellWrites("predict")))
    /\ UNCHANGED <<disk, diskReads, fitVars, figures>>

\* preds.shape
ShowShape ==
    /\ pc = "shape"
    /\ pc' = NextCell("shape")
    /\ executed' = Append(executed, Executed("shape", CellWrites("shape")))
    /\ UNCHANGED <<disk, ns, defined, calls, diskReads, fitVars, figures>>

\* s[a:b] of a sequence, 0 <= a <= b
PySlice(s, a, b) == SubSeq(s, a + 1, Min(b, Len(s)))

\* the chart of one randomly chosen validation encounter
Visualize ==
    /\ pc = "visualize"
    /\ pc' = NextCell("visualize")
    /\ \E ix \in 0..(Shape(Val("X_valid"))[1] - 1) :
         /\ ns' = [ns EXCEPT !["numencnt"] = <<Shape(Val("X_valid"))[1]>>, !["ix"] = <<ix>>]
         /\ figures' = Append(figures,
                [kind |-> "encounter",
                 lines |-> << [x |-> PySlice(Val("X_valid")[ix + 1], 1, 50),
                               y |-> PySlice(Val("preds")[ix + 1], 1, 50),
                               label |-> <<"", 0>>] >>])
    /\ defined' = defined \cup CellWrites("visualize")
    /\ executed' = Append(executed, Executed("visualize", CellWrites("visualize")))
    /\ UNCHANGED <<disk, calls, diskReads, fitVars>>

\* the arrays the roc cell takes the labels and the predictions from, and
\* the timestep (a Python index) of each
LabelSource == <<"y_valid", 0>>

PredictionSource == <<"preds", -1>>

\* roc_curve accepts a one-dimensional array (a 0-d array makes it raise)
RocInputOk(a) == Len(a.shape) = 1

\* label = y_valid[:, 0, :].squeeze(); prediction = preds[:, -1, :].squeeze();
\* rnn_roc = roc_curve(label, prediction); rnn_auc = auc(rnn_roc[0], rnn_roc[1])
RnnRoc ==
    /\ pc = "roc"
    /\ LET label      == Squeeze(TakeTimestep(Val(LabelSource[1]), LabelSource[2]))
           prediction == Squeeze(TakeTimestep(Val(PredictionSource[1]), PredictionSource[2]))
           roc        == RocCurve(label.data, prediction.data)
       IN  IF RocInputOk(label) /\ RocInputOk(prediction)
           THEN /\ ns' = [ns EXCEPT !["label"] = <<label>>,
                                    !["prediction"] = <<prediction>>,
                                    !["rnn_roc"] = <<roc>>,
                                    !["rnn_auc"] = <<Auc(roc[1], roc[2])>>]
                /\ calls' = calls \o Call("roc_curve", <<"label", "prediction">>)
                                  \o Call("auc", <<"rnn_roc", "rnn_roc">>)
                /\ defined' = defined \cup CellWrites("roc")
                /\ executed' = Append(executed, Executed("roc", CellWrites("roc")))
                /\ pc' = NextCell("roc")
           ELSE /\ ns' = [ns EXCEPT !["label"] = <<label>>,
                                    !["prediction"] = <<prediction>>]
                /\ calls' = Append(calls, [fn |-> "roc_curve",
                                           args |-> <<"label", "prediction">>,
                                           ev |-> "call"])
                /\ defined' = defined \cup {"label", "prediction"}
                /\ executed' = Append(executed, Executed("roc", {"label", "prediction"}))
                /\ pc' = "error"
    /\ UNCHANGED <<disk, diskReads, fitVars, figures>>

\* a column of the csv
Column(rows, c) ==
    [k \in 1..Len(rows) |->
        CASE c = "mortalityResponse" -> rows[k].mortalityResponse
          [] c = "PIM2"              -> rows[k].PIM2
          [] c = "PRISM3"            -> rows[k].PRISM3]

Negated(col) == [k \in 1..Len(col) |-> -col[k]]

\* index = pd.read_csv('/dli/task/csv/pim2prism3.csv'); the two baselines'
\* ROC curves and AUCs
Baselines ==
    /\ pc = "baselines"
    /\ pc' = NextCell("baselines")
    /\ LET index      == disk[FileCsv]
           mortrep    == Column(index, "mortalityResponse")
           pim2_roc   == RocCurve(mortrep, Negated(Column(index, "PIM2")))
           prism3_roc == RocCurve(mortrep, Negated(Column(index, "PRISM3")))
       IN  ns' = [ns EXCEPT !["index"] = <<index>>, !["mortrep"] = <<mortrep>>,
                            !["pim2_roc"] = <<pim2_roc>>,
                            !["prism3_roc"] = <<prism3_roc>>,
                            !["pim2_auc"] = <<Auc(pim2_roc[1], pim2_roc[2])>>,
                            !["prism3_auc"] = <<Auc(prism3_roc[1], prism3_roc[2])>>]
    /\ diskReads' = Append(diskReads, [cell |-> "baselines", file |-> FileCsv])
    /\ calls' = calls \o Call("pd.read_csv", <<FileCsv>>)
                      \o Call("roc_curve", <<"mortrep", "-index['PIM2']">>)
                      \o Call("roc_curve", <<"mortrep", "-index['PRISM3']">>)
                      \o Call("auc", <<"pim2_roc", "pim2_roc">>)
                      \o Call("auc", <<"prism3_roc", "prism3_roc">>)
    /\ defined' = defined \cup CellWrites("baselines")
    /\ executed' = Append(executed, Executed("baselines", CellWrites("baselines")))
    /\ UNCHANGED <<disk, fitVars, figures>>

\* a chart on which the two baselines' AUCs are exchanged
PlotLinesSwapped ==
    << <<"prism3_roc", "prism3", "pim2_auc">>,
       <<"pim2_roc",   "pim2",   "prism3_auc">>,
       <<"rnn_roc",    "rnn",    "rnn_auc">> >>

\* the lines of the comparison chart, in plotting order: the curve plotted,
\* the name in the legend, and the AUC formatted after the name
PlotLines ==
    << <<"prism3_roc", "prism3", "prism3_auc">>,
       <<"pim2_roc",   "pim2",   "pim2_auc">>,
       <<"rnn_roc",    "rnn",    "rnn_auc">> >>

\* plt.plot(roc[0], roc[1], label='name: %0.3f' % auc, ...)
PlotLine(l) ==
    [x |-> Val(l[1])[1], y |-> Val(l[1])[2], label |-> <<l[2], Format3(Val(l[3]))>>]

\* the comparison chart
PlotRocs ==
    /\ pc = "plot"
    /\ pc' = NextCell("plot")
    /\ figures' = Append(figures,
           [kind |-> "roc", lines |-> [k \in 1..Len(PlotLines) |-> PlotLine(PlotLines[k])]])
    /\ calls' = calls \o Call("plt.plot", <<"prism3_roc", "prism3_auc">>)
                      \o Call("plt.plot", <<"pim2_roc", "pim2_auc">>)
                      \o Call("plt.plot", <<"rnn_roc", "rnn_auc">>)
    /\ defined' = defined \cup CellWrites("plot")
    /\ executed' = Append(executed, Executed("plot", CellWrites("plot")))
    /\ UNCHANGED <<disk, ns, diskReads, fitVars>>

Next ==
    \/ Imports
    \/ LoadArrays
    \/ BuildModel
    \/ FitCall
    \/ FitEpochBegin
    \/ FitTrainStep
    \/ FitEpochEnd
    \/ FitReturn
    \/ Predict
    \/ ShowShape
    \/ Visualize
    \/ RnnRoc
    \/ Baselines
    \/ PlotRocs

\* the notebook on every validation set within the bounds
Spec == Init /\ [][Next]_vars

\* the notebook on every training-set size within the bounds
InitFit == InitWith(DisksFit)

SpecFit == InitFit /\ [][Next]_vars

\* the steps of model.fit
FitLoop == FitCall \/ FitEpochBegin \/ FitTrainStep \/ FitEpochEnd \/ FitReturn

\* the kernel runs the fit cell on: a step of the training loop that can be
\* taken is taken
FairSpecFit == InitFit /\ [][Next]_vars /\ WF_vars(FitLoop)

\* the notebook on every csv within the bounds
InitCompare == InitWith(DisksCompare)

SpecCompare == InitCompare /\ [][Next]_vars

----------------------------------------------------------------------------
(* Properties *)

\* where a call stands in the notebook's sequence of steps
Stage(fn) ==
    CASE fn = "np.load"                                      -> 1
      [] fn \in {"Model", "model.compile", "model.summary"}  -> 2
      [] fn = "model.fit"                                    -> 3
      [] fn = "model.predict"                                -> 4
      [] fn \in {"roc_curve", "auc", "pd.read_csv"}          -> 5
      [] fn = "plt.plot"                                     -> 6

Returned(fn, k) == \E j \in 1..(k - 1) : calls[j].fn = fn /\ calls[j].ev = "return"

\* C1: the steps of a top-to-bottom run happen in the order load, build and
\* compile, fit, predict, ROC/AUC, comparison plot; model.predict is never
\* called before model.fit has returned; no ROC or AUC of the model's output
\* is computed before predict has returned; and every cell reads only names
\* that an earlier cell has assigned.
StepsInOrder ==
    /\ \A j, k \in 1..Len(calls) : j < k => Stage(calls[j].fn) <= Stage(calls[k].fn)
    /\ \A k \in 1..Len(calls) :
         /\ calls[k].fn = "model.predict" => Returned("model.fit", k)
         /\ (calls[k].fn \in {"roc_curve", "auc"}
               /\ Range(calls[k].args) \cap {"label", "prediction", "rnn_roc"} # {})
              => Returned("model.predict", k)
         /\ calls[k].fn = "model.fit" => Returned("model.compile", k)
         /\ calls[k].fn = "Model" => Returned("np.load", k)
         /\ calls[k].fn = "plt.plot" => Returned("auc", k)
    /\ \A k \in 1..Len(executed) :
         executed[k].reads \subseteq
             UNION { executed[j].writes : j \in 1..(k - 1) }
    /\ defined = UNION { executed[j].writes : j \in 1..Len(executed) }

\* a complete run of the ten code cells
StepsInOrderWitness ==
    /\ pc = "done"
    /\ Len(executed) = 10
    /\ \E k \in 1..Len(calls) : calls[k].fn = "plt.plot"

\* C2: preds holds exactly one value for every validation encounter and
\* every timestep of X_valid (shape N x T x 1), and every value is a
\* probability in [0, 1].
PredsPerTimestep ==
    "preds" \in defined =>
        LET X == Val("X_valid")
            P == Val("preds")
        IN  /\ Len(P) = Len(X)
            /\ Shape(P) = <<Shape(X)[1], Shape(X)[2], 1>>
            /\ \A i \in 1..Len(X) :
                 /\ Len(P[i]) = Len(X[i])
                 /\ \A t \in 1..Len(X[i]) :
                      /\ Len(P[i][t]) = 1
                      /\ P[i][t][1] \in 0..ProbScale

\* predictions of several encounters of several timesteps, not all equal
PredsPerTimestepWitness ==
    /\ "preds" \in defined
    /\ Shape(Val("preds"))[1] >= 2
    /\ Shape(Val("preds"))[2] >= 2
    /\ Val("preds")[1][1] # Val("preds")[1][2]

TrainableLayers(model) == SelectSeq(model.layers, LAMBDA l : l.weights > 0)

\* C3: whatever the data, the model that is built and fitted has exactly two
\* trainable layers, an LSTM of 128 units followed by a per-timestep Dense of
\* one sigmoid unit, and its input dimension is X_train.shape[-1].
FixedTwoLayerNetwork ==
    "model" \in defined =>
        LET layers == TrainableLayers(Val("model")) IN
        /\ Len(layers) = 2
        /\ layers[1].class = "LSTM"
        /\ layers[1].units = 128
        /\ layers[1].return_sequences
        /\ layers[2].class = "TimeDistributed(Dense)"
        /\ layers[2].units = 1
        /\ layers[2].activation = "sigmoid"
        /\ Val("model").input_dim = Shape(Val("X_train"))[3]
        /\ Val("model") = BuildNetwork(Shape(Val("X_train"))[3])

\* the model fitted on data of three features
FixedTwoLayerNetworkWitness ==
    /\ "history" \in defined
    /\ Val("model").input_dim = 3
    /\ Shape(Val("X_train"))[3] = 3

\* the training loop's bookkeeping at every moment of fit
FitProgress ==
    /\ fitEpoch <= Epochs
    /\ Len(stepsPerEpoch) = fitEpoch
    /\ fitPhase \in {"epoch_begin", "return", "returned"} =>
         \A i \in 1..Len(seen) : seen[i] = fitEpoch
    /\ fitPhase = "steps" =>
         /\ \A i \in 1..Len(seen) :
              seen[i] = fitEpoch +
                  (IF \E j \in 1..fitPos : fitOrder[j] = i THEN 1 ELSE 0)
         /\ Range(fitOrder) = 1..Len(seen)
    /\ fitPhase \in {"return", "returned"} =>
         /\ fitEpoch = 5
         /\ Len(seen) = Len(Val("X_train"))
         /\ \A i \in 1..Len(seen) : seen[i] = 5
    /\ fitPhase \in {"epoch_begin", "steps"} => fitEpoch < 5
    /\ "history" \in defined => Val("history").epoch = <<0, 1, 2, 3, 4>>

\* C4: model.fit performs exactly 5 epochs, whatever the data and the
\* parameters reached; in each epoch every training encounter is processed
\* exactly once; and fit, once called, returns.
FitRunsFiveEpochs ==
    /\ []FitProgress
    /\ (pc = "fit") ~> (fitPhase = "returned")

\* fit has returned after epochs of a full batch and a partial batch each
FitRunsFiveEpochsWitness ==
    /\ fitPhase = "returned"
    /\ Len(Val("X_train")) > BatchSize
    /\ stepsPerEpoch = <<2, 2, 2, 2, 2>>
    /\ \A i \in 1..Len(seen) : seen[i] = 5

\* C5, as claimed: no step other than the array-loading step reads any
\* input from disk.
OnlyLoadReadsDisk ==
    \A k \in 1..Len(diskReads) : diskReads[k].cell = "load"

\* C5, amended: over a complete run the inputs read from disk are the four
\* arrays, read by the array-loading step, and pim2prism3.csv, read by the
\* baseline step; no other step reads any input from disk.
DiskReadsAreArraysAndCsv ==
    LET arrays == [k \in 1..Len(ArrayFiles) |-> [cell |-> "load", file |-> ArrayFiles[k]]]
        csv    == <<[cell |-> "baselines", file |-> FileCsv]>>
        ran(c) == \E k \in 1..Len(executed) : executed[k].cell = c
    IN  diskReads = (IF ran("load") THEN arrays ELSE <<>>)
                    \o (IF ran("baselines") THEN csv ELSE <<>>)

\* a complete run: five files read
DiskReadsWitness ==
    /\ pc = "done"
    /\ Len(diskReads) = 5
    /\ diskReads[5].cell = "baselines"

\* the comparison chart, once plotted
RocChart == figures[Len(figures)]

RocChartPlotted == Len(figures) >= 1 /\ figures[Len(figures)].kind = "roc"

\* C6: the comparison chart has exactly three lines, for PRISM3, PIM2 and
\* the RNN; each scorer's curve is the roc_curve of that scorer's labels and
\* scores, its AUC is the auc of that same curve, and its line on the chart
\* is its own curve labelled with its own AUC.
ThreeScorersOwnCurves ==
    /\ "rnn_auc" \in defined =>
         /\ Val("rnn_roc") = RocCurve(Val("label").data, Val("prediction").data)
         /\ Val("rnn_auc") = Auc(Val("rnn_roc")[1], Val("rnn_roc")[2])
    /\ "pim2_auc" \in defined =>
         /\ Val("pim2_roc") =
                RocCurve(Column(disk[FileCsv], "mortalityResponse"),
                         Negated(Column(disk[FileCsv], "PIM2")))
         /\ Val("prism3_roc") =
                RocCurve(Column(disk[FileCsv], "mortalityResponse"),
                         Negated(Column(disk[FileCsv], "PRISM3")))
         /\ Val("pim2_auc") = Auc(Val("pim2_roc")[1], Val("pim2_roc")[2])
         /\ Val("prism3_auc") = Auc(Val("prism3_roc")[1], Val("prism3_roc")[2])
    /\ RocChartPlotted =>
         /\ Len(RocChart.lines) = 3
         /\ {RocChart.lines[k].label[1] : k \in 1..3} = {"rnn", "pim2", "prism3"}
         /\ \A k \in 1..3 :
              LET line == RocChart.lines[k]
                  name == line.label[1]
                  roc  == Val(name \o "_roc")
                  area == Val(name \o "_auc")
              IN  /\ line.x = roc[1]
                  /\ line.y = roc[2]
                  /\ line.label[2] = Format3(area)

\* the chart plotted with three defined AUCs, the two baselines' differing
ThreeScorersWitness ==
    /\ RocChartPlotted
    /\ ~IsNaN(Val("rnn_auc")) /\ ~IsNaN(Val("pim2_auc")) /\ ~IsNaN(Val("prism3_auc"))
    /\ Format3(Val("pim2_auc")) # Format3(Val("prism3_auc"))
    /\ Val("pim2_roc") # Val("prism3_roc")
    /\ Len(Val("index")) >= 2

ValidationArrays == {"X_valid", "y_valid"}

TrainingArrays == {"X_train", "y_train"}

\* C7: the validation arrays are never passed to model.fit, the training
\* arrays never to model.predict or roc_curve (the predictions scored are
\* those of X_valid, the labels those of y_valid), and no step after loading
\* modifies any of the four arrays.
HoldOutEvaluation ==
    /\ \A k \in 1..Len(calls) :
         /\ calls[k].fn = "model.fit" =>
              Range(calls[k].args) \cap ValidationArrays = {}
         /\ calls[k].fn \in {"model.predict", "roc_curve"} =>
              Range(calls[k].args) \cap TrainingArrays = {}
    /\ fitPhase # "idle" => Len(seen) = Len(disk[FileXTrain])
    /\ "preds" \in defined => Val("preds") = ModelPredict(weights, disk[FileXValid])
    /\ "label" \in defined =>
         /\ Val("label").data = [i \in 1..Len(disk[FileYValid]) |-> disk[FileYValid][i][1][1]]
         /\ Val("prediction").data =
                [i \in 1..Len(Val("preds")) |-> Val("preds")[i][Len(Val("preds")[i])][1]]
    /\ "X_train" \in defined =>
         /\ Val("X_train") = disk[FileXTrain]
         /\ Val("y_train") = disk[FileYTrain]
         /\ Val("X_valid") = disk[FileXValid]
         /\ Val("y_valid") = disk[FileYValid]

\* a complete run on validation data that differs from the training data
HoldOutWitness ==
    /\ pc = "done"
    /\ disk[FileXValid] # disk[FileXTrain]
    /\ disk[FileYValid] # disk[FileYTrain]
    /\ Len(disk[FileXValid]) # Len(disk[FileXTrain])

\* a padded timestep: every feature is zero
IsPadding(x) == \A f \in 1..Len(x) : x[f] = 0

\* the last timestep of an encounter that is a real observation; 0 when
\* there is none
LastReal(xs) ==
    IF \E t \in 1..Len(xs) : ~IsPadding(xs[t])
    THEN CHOOSE t \in 1..Len(xs) :
            ~IsPadding(xs[t]) /\ \A u \in (t + 1)..Len(xs) : IsPadding(xs[u])
    ELSE 0

HasTrailingPadding(xs) == LastReal(xs) >= 1 /\ LastReal(xs) < Len(xs)

\* C8: with N validation encounters, label and prediction both have length
\* N; element i of label is encounter i's 0/1 label at timestep 0 of y_valid,
\* element i of prediction is encounter i's value in [0, 1] at the final
\* timestep of preds; and for an encounter that ends in masked padding that
\* value is the model's output at the encounter's last real observation.
OneLabelOnePredictionPerEncounter ==
    "label" \in defined =>
        LET N == Len(Val("X_valid"))
            L == Val("label")
            P == Val("prediction")
        IN  /\ L.shape = <<N>>
            /\ P.shape = <<N>>
            /\ Len(L.data) = N
            /\ Len(P.data) = N
            /\ \A i \in 1..N :
                 /\ L.data[i] \in {0, 1}
                 /\ L.data[i] = Val("y_valid")[i][1][1]
                 /\ P.data[i] \in 0..ProbScale
                 /\ P.data[i] = Val("preds")[i][Len(Val("preds")[i])][1]
                 /\ HasTrailingPadding(Val("X_valid")[i]) =>
                      P.data[i] = Val("preds")[i][LastReal(Val("X_valid")[i])][1]

\* What the roc cell does establish: the values are those of the claim for
\* every N, and the lengths are N whenever N is not 1.
LabelAndPredictionValues ==
    "label" \in defined =>
        LET N == Len(Val("X_valid"))
            L == Val("label")
            P == Val("prediction")
        IN  /\ N # 1 => L.shape = <<N>> /\ P.shape = <<N>>
            /\ N = 1 => L.shape = <<>> /\ P.shape = <<>> /\ pc = "error"
            /\ Len(L.data) = N
            /\ Len(P.data) = N
            /\ \A i \in 1..N :
                 /\ L.data[i] \in {0, 1}
                 /\ L.data[i] = Val("y_valid")[i][1][1]
                 /\ P.data[i] \in 0..ProbScale
                 /\ P.data[i] = Val("preds")[i][Len(Val("preds")[i])][1]
                 /\ HasTrailingPadding(Val("X_valid")[i]) =>
                      P.data[i] = Val("preds")[i][LastReal(Val("X_valid")[i])][1]

\* the roc cell has run on encounters of which one ends in padding and whose
\* predictions changed over its real observations
LabelAndPredictionWitness ==
    /\ "rnn_auc" \in defined
    /\ \E i \in 1..Len(Val("X_valid")) :
         /\ HasTrailingPadding(Val("X_valid")[i])
         /\ Val("preds")[i][Len(Val("preds")[i])] = Val("preds")[i][1]

CeilDiv(a, b) == (a + b - 1) \div b

\* the time steps of the training data: encounters times timesteps
TrainTimeSteps == Shape(Val("X_train"))[1] * Shape(Val("X_train"))[2]

\* C9: in each epoch one parameter update is performed for each consecutive
\* group of 128 time steps of training data.
UpdateEvery128TimeSteps ==
    \A k \in 1..Len(stepsPerEpoch) : stepsPerEpoch[k] = CeilDiv(TrainTimeSteps, 128)

\* What fit does: one parameter update for each group of 128 encounters.
UpdateEvery128Encounters ==
    \A k \in 1..Len(stepsPerEpoch) :
        stepsPerEpoch[k] = CeilDiv(Len(Val("X_train")), 128)

====
